---- MODULE Spec2Model ----
(***************************************************************************)
(* A model of transplant_vocab.py: one run of main(), from the loading of  *)
(* the two configurations to the save step.  The run is a sequential       *)
(* program; pc is its position.  The tokenizers, the configuration files   *)
(* and the donor weights are the run's environment.  The donor tokenizer's *)
(* encode is an unknown deterministic function: the model resolves its     *)
(* value for a text when the run first asks for it and keeps it thereafter *)
(* (donor_encode).  Tensor arithmetic is exact rational arithmetic.        *)
(***************************************************************************)
EXTENDS Integers, Sequences, FiniteSets, TLC

(* ------------------------------ bounds -------------------------------- *)

\* the longest id sequence the donor tokenizer returns for one text
MaxLen == 3

\* the number of declared-but-unused target ids (target vocab_size - used
\* size) of a target configuration that declares more than is used
MaxUnused == 1

\* the most --override pairs on the command line
MaxOverrides == 2

(* --------------------------- exact rationals -------------------------- *)

Abs(x) == IF x < 0 THEN 0 - x ELSE x

RECURSIVE GCD(_, _)
GCD(a, b) == IF b = 0 THEN a ELSE GCD(b, a % b)

\* the rational n/d (d > 0) in lowest terms, as <<numerator, denominator>>
Rat(n, d) == LET g == GCD(Abs(n), d) IN <<n \div g, d \div g>>

RAdd(x, y) == Rat(x[1] * y[2] + y[1] * x[2], x[2] * y[2])

RMul(x, y) == Rat(x[1] * y[1], x[2] * y[2])

\* x / y for y > 0
RDiv(x, y) == Rat(x[1] * y[2], x[2] * y[1])

Zero == Rat(0, 1)

One == Rat(1, 1)

RECURSIVE RPow(_, _)
RPow(x, i) == IF i = 0 THEN One ELSE RMul(x, RPow(x, i - 1))

\* rows are sequences of rationals, one per hidden dimension
RowAdd(r, s) == [j \in DOMAIN r |-> RAdd(r[j], s[j])]

RowScale(c, r) == [j \in DOMAIN r |-> RMul(c, r[j])]

RowDiv(r, c) == [j \in DOMAIN r |-> RDiv(r[j], c)]

ZeroRow(width) == [j \in 1..width |-> Zero]

\* torch.sum(rows, dim = 0)
RECURSIVE RowSum(_, _)
RowSum(rows, width) ==
    IF rows = <<>> THEN ZeroRow(width)
    ELSE RowAdd(Head(rows), RowSum(Tail(rows), width))

RECURSIVE RSum(_)
RSum(xs) == IF xs = <<>> THEN Zero ELSE RAdd(Head(xs), RSum(Tail(xs)))

\* a changed Zeros: the matrix is allocated with ones
Ones(rows, width) == [i \in 0..(rows - 1) |-> [j \in 1..width |-> One]]

\* torch.zeros((rows, width)); rows are indexed from 0
Zeros(rows, width) == [i \in 0..(rows - 1) |-> ZeroRow(width)]

(* ---------------------------- environment ----------------------------- *)

\* an optional value: None, or Some(x)
None == <<>>

Some(x) == <<x>>

\* the characters of the texts of the model
LF == "\n"

Backslash == "\\"

\* target_tokenizer.vocab: token -> id.  The target tokenizer is
\* character level over this vocabulary.
target_vocab == ("a" :> 0) @@ (LF :> 1)

TargetIds == {target_vocab[t] : t \in DOMAIN target_vocab}

\* target_tokenizer.decode([idx]): the surface text of a target id
TargetDecode(i) == <<CHOOSE t \in DOMAIN target_vocab : target_vocab[t] = i>>

\* target_tokenizer.encode(text, add_special_tokens = False)
TargetEncode(text) == [k \in 1..Len(text) |-> target_vocab[text[k]]]

\* the weights of the donor model: model.model.embed_tokens.weight and
\* model.lm_head.weight, two donor ids by one hidden dimension (vocab_size 2, hidden_size 1)
embed_tokens_weight == <<
    <<Rat(3, 1)>>,
    <<Rat(5, 1)>> >>

lm_head_weight == <<
    <<Rat(7, 1)>>,
    <<Rat(11, 1)>> >>

DonorIds == 0..(Len(embed_tokens_weight) - 1)

\* tensor[id]: row id of a donor matrix (ids count from 0)
Row(weight, id) == weight[id + 1]

RECURSIVE SeqsUpTo(_, _)
SeqsUpTo(S, n) ==
    IF n = 0 THEN {<<>>}
    ELSE LET shorter == SeqsUpTo(S, n - 1)
         IN shorter \cup {Append(s, x) : s \in {t \in shorter : Len(t) = n - 1}, x \in S}

\* what donor_tokenizer.encode may return for a text
DonorSeqs == SeqsUpTo(DonorIds, MaxLen)

\* --weighting-decay-factor, as accepted by parse_arguments
Decays == {Rat(0, 1), Rat(1, 2), Rat(1, 1)}

\* the two strings of an --override pair
TargetStrings == {<<>>, <<"a">>, <<LF>>, <<"a", LF>>}

DonorStrings == {<<"a">>, <<Backslash, "n">>}

\* config.json of the donor: flat, nested under text_config, mixed, or
\* with a size field missing; tie_word_embeddings is absent or true
DonorConfigs == {
    [vocab_size |-> 2, hidden_size |-> 1],
    [text_config |-> [vocab_size |-> 2, hidden_size |-> 1]],
    [text_config |-> [vocab_size |-> 2], hidden_size |-> 1,
     tie_word_embeddings |-> TRUE],
    [text_config |-> [hidden_size |-> 1], vocab_size |-> 2],
    [vocab_size |-> 2],
    [hidden_size |-> 1] }

Has(config, key) == key \in DOMAIN config

\* config.json of the target: the declared vocabulary size, which is the
\* used size or MaxUnused more, flat or nested, or missing
TargetConfigs ==
    UNION {{[vocab_size |-> v], [text_config |-> [vocab_size |-> v]]} :
           v \in {Cardinality(TargetIds), Cardinality(TargetIds) + MaxUnused}}
    \cup {[hidden_size |-> 1]}

\* what a tokenizer attribute bos_token_id, eos_token_id or pad_token_id holds
AttrReads(ids) == {None} \cup {Some(i) : i \in ids}

\* what config.json holds under such a key: None when the key is absent,
\* Some(v) when it is present with the value v (itself None for null)
ConfigReads(ids) == {None} \cup {Some(v) : v \in AttrReads(ids)}

special_tokens == <<"bos_token_id", "eos_token_id", "pad_token_id">>

\* the target id that the target's tokenizer and configuration can name as a
\* special token
TargetSpecialIds == {target_vocab["a"]}

(* ------------------------------- state -------------------------------- *)

VARIABLES
    pc,                      \* the position of main()
    error,                   \* None, or the exception that ended the run
    weighting_decay_factor,  \* args.weighting_decay_factor
    donor_config,            \* the size fields of the donor's config.json
    donor_vocab_size,        \* None while unbound
    donor_hidden_size,       \* None while unbound
    target_vocab_size,       \* None while unbound
    used_target_vocab_size,
    override_map,            \* target id -> donor ids
    token_attr,              \* the automatic loop: index into special_tokens
    special_read,            \* what the loop body read for token_attr
    target_token_id,
    donor_token_id,
    override_index,          \* the manual loop: pairs of args.override done
    target_token,
    donor_tokens,
    donor_encode,            \* donor_tokenizer.encode, as far as resolved
    donor_lm_head,
    new_embed_tokens,
    new_lm_head,
    mapping_counts,
    lm_head_copy_count,
    lm_head_mean_count,
    lm_head_zeroed_count,
    idx,
    decoded,
    encoded,
    mapping,                 \* idx -> the encoded of its iteration (line 297)
    row_writes,              \* row -> assignments to new_embed_tokens[row]
    saved                    \* save_pretrained has run

config_vars == <<donor_config, donor_vocab_size, donor_hidden_size,
                 target_vocab_size, used_target_vocab_size>>

auto_vars == <<token_attr, special_read, target_token_id, donor_token_id>>

manual_vars == <<override_index, target_token, donor_tokens>>

pass_vars == <<donor_lm_head, new_embed_tokens, new_lm_head, mapping_counts,
               lm_head_copy_count, lm_head_mean_count, idx, decoded, mapping,
               row_writes>>

vars == <<pc, error, weighting_decay_factor, config_vars, override_map,
          auto_vars, manual_vars, donor_encode, encoded, pass_vars,
          lm_head_zeroed_count, saved>>

\* an exception leaves main(): the run ends.  shows is the set of the run's
\* strings that the exception's message quotes.
Raise(type, line, shows) ==
    /\ pc' = "aborted"
    /\ error' = Some([type |-> type, line |-> line, shows |-> shows])

Init ==
    /\ pc = "config"
    /\ error = None
    /\ weighting_decay_factor = None
    /\ donor_config = None
    /\ donor_vocab_size = None
    /\ donor_hidden_size = None
    /\ target_vocab_size = None
    /\ used_target_vocab_size = None
    /\ override_map = <<>>
    /\ token_attr = 0
    /\ special_read = None
    /\ target_token_id = None
    /\ donor_token_id = None
    /\ override_index = 0
    /\ target_token = None
    /\ donor_tokens = None
    /\ donor_encode = <<>>
    /\ donor_lm_head = None
    /\ new_embed_tokens = None
    /\ new_lm_head = None
    /\ mapping_counts = <<>>
    /\ lm_head_copy_count = 0
    /\ lm_head_mean_count = 0
    /\ lm_head_zeroed_count = None
    /\ idx = 0
    /\ decoded = None
    /\ encoded = None
    /\ mapping = <<>>
    /\ row_writes = <<>>
    /\ saved = FALSE

(* ------------------------ configuration loading ----------------------- *)

\* lines 163-168: the donor vocabulary size
DonorVocabSize(config) ==
    IF Has(config, "text_config") /\ Has(config.text_config, "vocab_size")
    THEN Some(config.text_config.vocab_size)
    ELSE IF Has(config, "vocab_size") THEN Some(config.vocab_size) ELSE None

\* lines 170-175: the pair <<donor_vocab_size, donor_hidden_size>> after the
\* donor hidden size is read, donor_vocab_size being vocab before it
DonorHiddenSize(config, vocab) ==
    IF Has(config, "text_config") /\ Has(config.text_config, "hidden_size")
    THEN <<Some(config.text_config.hidden_size), None>>
    ELSE <<vocab, Some(config.hidden_size)>>

\* lines 177-182: the target vocabulary size
TargetVocabSize(config) ==
    IF Has(config, "text_config") /\ Has(config.text_config, "vocab_size")
    THEN Some(config.text_config.vocab_size)
    ELSE IF Has(config, "vocab_size") THEN Some(config.vocab_size) ELSE None

\* lines 159-182
ParseConfig ==
    /\ pc = "config"
    /\ \E dc \in DonorConfigs, tc \in TargetConfigs :
        /\ donor_config' = Some(dc)
        /\ IF DonorVocabSize(dc) = None
           THEN /\ Raise("AssertionError", 167, {})
                /\ UNCHANGED <<donor_vocab_size, donor_hidden_size, target_vocab_size>>
           ELSE IF ~ (Has(dc, "text_config") /\ Has(dc.text_config, "hidden_size"))
                   /\ ~ Has(dc, "hidden_size")
           THEN /\ Raise("AssertionError", 174, {})
                /\ donor_vocab_size' = DonorVocabSize(dc)
                /\ UNCHANGED <<donor_hidden_size, target_vocab_size>>
           ELSE /\ donor_vocab_size' = DonorHiddenSize(dc, DonorVocabSize(dc))[1]
                /\ donor_hidden_size' = DonorHiddenSize(dc, DonorVocabSize(dc))[2]
                /\ IF TargetVocabSize(tc) = None
                   THEN /\ Raise("AssertionError", 181, {})
                        /\ UNCHANGED target_vocab_size
                   ELSE /\ target_vocab_size' = TargetVocabSize(tc)
                        /\ pc' = "loaded"
                        /\ UNCHANGED error
    /\ UNCHANGED <<weighting_decay_factor, used_target_vocab_size, override_map,
                   auto_vars, manual_vars, donor_encode, encoded, pass_vars,
                   lm_head_zeroed_count, saved>>

Max(S) == CHOOSE x \in S : \A y \in S : y <= x

\* lines 184-201: the tokenizers and the donor model are loaded, the used
\* size is computed and the three sizes are printed
ReportLoaded ==
    /\ pc = "loaded"
    /\ used_target_vocab_size' = Some(Max(TargetIds) + 1)
    /\ IF donor_hidden_size = None
       THEN Raise("UnboundLocalError", 201, {})
       ELSE /\ pc' = "auto"
            /\ UNCHANGED error
    /\ token_attr' = 1
    /\ UNCHANGED <<weighting_decay_factor, donor_config, donor_vocab_size,
                   donor_hidden_size, target_vocab_size, override_map,
                   special_read, target_token_id, donor_token_id, manual_vars,
                   donor_encode, encoded, pass_vars, lm_head_zeroed_count, saved>>

(* ----------------------------- overrides ------------------------------ *)

\* lines 211-218: the id of a role, from the tokenizer's attribute or else
\* from the configuration's value
RoleId(attr, config) == IF attr = None /\ config # None THEN config[1] ELSE attr

\* a changed AutoRegister: the test "not in override_map" is missing
AutoRegisterOverwriting(map, t, d) ==
    IF t # None /\ d # None THEN (t[1] :> <<d[1]>>) @@ map ELSE map

\* lines 221-233: the registry after the automatic match of target id t
\* with donor id d (each None when the role has none)
AutoRegister(map, t, d) ==
    IF t # None /\ d # None /\ t[1] \notin DOMAIN map
    THEN (t[1] :> <<d[1]>>) @@ map
    ELSE map

\* lines 209-233: one iteration of the loop over special_tokens
AutoOverride ==
    /\ pc = "auto"
    /\ token_attr <= Len(special_tokens)
    /\ \E ta \in AttrReads(TargetSpecialIds), tc \in ConfigReads(TargetSpecialIds),
          da \in AttrReads(DonorIds), dc \in ConfigReads(DonorIds) :
        /\ special_read' = Some([target_attr |-> ta, target_config |-> tc,
                                 donor_attr |-> da, donor_config |-> dc])
        /\ target_token_id' = RoleId(ta, tc)
        /\ donor_token_id' = RoleId(da, dc)
        /\ override_map' = AutoRegister(override_map, RoleId(ta, tc), RoleId(da, dc))
    /\ token_attr' = token_attr + 1
    /\ UNCHANGED <<pc, error, weighting_decay_factor, config_vars, manual_vars,
                   donor_encode, encoded, pass_vars, lm_head_zeroed_count, saved>>

\* lines 235-237: the loop over special_tokens is over
EndAutoOverrides ==
    /\ pc = "auto"
    /\ token_attr > Len(special_tokens)
    /\ pc' = "manual"
    /\ special_read' = None
    /\ target_token_id' = None
    /\ donor_token_id' = None
    /\ UNCHANGED <<error, weighting_decay_factor, config_vars, override_map,
                   token_attr, manual_vars, donor_encode, encoded, pass_vars,
                   lm_head_zeroed_count, saved>>

\* lines 246-247: str.replace("\\n", chr(10))
RECURSIVE ReplaceEscapedNewlines(_)
ReplaceEscapedNewlines(s) ==
    IF s = <<>> THEN <<>>
    ELSE IF Len(s) >= 2 /\ s[1] = Backslash /\ s[2] = "n"
    THEN <<LF>> \o ReplaceEscapedNewlines(SubSeq(s, 3, Len(s)))
    ELSE <<s[1]>> \o ReplaceEscapedNewlines(Tail(s))

\* what donor_tokenizer.encode(text, add_special_tokens = False) may return
DonorEncode(text) ==
    IF text \in DOMAIN donor_encode THEN {donor_encode[text]} ELSE DonorSeqs

\* a changed ManualRegister: an entry already there is kept
ManualRegisterKeepFirst(map, t, ids) == map @@ (t :> ids)

\* line 254
ManualRegister(map, t, ids) == (t :> ids) @@ map

\* lines 238-256: one iteration of the loop over args.override
ManualOverride ==
    /\ pc = "manual"
    /\ override_index < MaxOverrides
    /\ \E tt \in TargetStrings, dt \in DonorStrings :
        /\ target_token' = Some(tt)
        /\ IF Len(TargetEncode(tt)) # 1
           THEN /\ Raise("AssertionError", 241, {tt})
                /\ UNCHANGED <<donor_tokens, donor_encode, encoded, override_map,
                               override_index>>
           ELSE /\ donor_tokens' = Some(ReplaceEscapedNewlines(dt))
                /\ \E ids \in DonorEncode(ReplaceEscapedNewlines(dt)) :
                    /\ donor_encode' = (ReplaceEscapedNewlines(dt) :> ids) @@ donor_encode
                    /\ encoded' = Some(ids)
                    /\ IF ids = <<>>
                       THEN /\ Raise("UnboundLocalError", 251, {})
                            /\ UNCHANGED <<override_map, override_index>>
                       ELSE /\ override_map' =
                                 ManualRegister(override_map, TargetEncode(tt)[1], ids)
                            /\ override_index' = override_index + 1
                            /\ UNCHANGED <<pc, error>>
    /\ UNCHANGED <<weighting_decay_factor, config_vars, auto_vars, pass_vars,
                   lm_head_zeroed_count, saved>>

(* ------------------------------ the pass ------------------------------ *)

\* line 261: donor_config.get("tie_word_embeddings", False)
TieWordEmbeddings(config) ==
    IF Has(config, "tie_word_embeddings") THEN config.tie_word_embeddings ELSE FALSE

\* lines 259-287: the donor matrices are taken from the model, the two new
\* matrices are allocated and the counters are cleared.  The decay factor
\* is a read-only input whose first use is in the pass; the loop over
\* args.override is over.
BeginPass ==
    /\ pc = "manual"
    /\ pc' = "pass"
    /\ \E decay \in Decays : weighting_decay_factor' = Some(decay)
    /\ donor_lm_head' = IF TieWordEmbeddings(donor_config[1]) THEN embed_tokens_weight
                        ELSE lm_head_weight
    /\ new_embed_tokens' = Zeros(target_vocab_size[1], donor_hidden_size[1])
    /\ new_lm_head' = Zeros(target_vocab_size[1], donor_hidden_size[1])
    /\ row_writes' = [r \in 0..(target_vocab_size[1] - 1) |-> 0]
    /\ mapping_counts' = <<>>
    /\ lm_head_copy_count' = 0
    /\ lm_head_mean_count' = 0
    /\ idx' = 0
    /\ target_token' = None
    /\ donor_tokens' = None
    /\ encoded' = None
    /\ override_index' = 0
    /\ UNCHANGED <<error, config_vars, override_map, auto_vars,
                   donor_encode, decoded, mapping, lm_head_zeroed_count, saved>>

\* a changed compute_front_loaded_mean: the weights grow with the position
compute_back_loaded_mean(v, decay) ==
    LET n == Len(v)
        width == Len(v[1])
        decay_powers == [i \in 1..n |-> RPow(decay, n - i)]
        weighted_sum == RowSum([i \in 1..n |-> RowScale(decay_powers[i], v[i])], width)
        denominator == RSum(decay_powers)
    IN IF n = 1 \/ decay = Zero THEN v[1]
       ELSE IF decay = One THEN RowDiv(RowSum(v, width), Rat(n, 1))
       ELSE RowDiv(weighted_sum, denominator)

\* lines 122-153, v being the donor head rows of a mapping
compute_front_loaded_mean(v, decay) ==
    LET n == Len(v)
        width == Len(v[1])
        decay_powers == [i \in 1..n |-> RPow(decay, i - 1)]
        weighted_sum == RowSum([i \in 1..n |-> RowScale(decay_powers[i], v[i])], width)
        denominator == RSum(decay_powers)
    IN IF n = 1 \/ decay = Zero THEN v[1]
       ELSE IF decay = One THEN RowDiv(RowSum(v, width), Rat(n, 1))
       ELSE RowDiv(weighted_sum, denominator)

\* a changed SelectEncoded: the registry is not consulted
SelectEncodedNatural(map, i, natural) == natural

\* lines 291-294: the mapping of target id i, natural being the donor
\* encoding of its decoded text
SelectEncoded(map, i, natural) == IF i \in DOMAIN map THEN map[i] ELSE natural

\* a changed CountMapping: a bucket already there is set, not incremented
CountMappingOnce(counts, n) == (n :> 1) @@ counts

\* lines 300-303
CountMapping(counts, n) ==
    IF n \in DOMAIN counts THEN [counts EXCEPT ![n] = @ + 1]
    ELSE (n :> 1) @@ counts

\* a changed EmbedRow: the first id of the mapping, not the last
EmbedRowFirst(ids) == Row(embed_tokens_weight, ids[1])

\* line 306: the donor row copied into the new input embeddings
EmbedRow(ids) == Row(embed_tokens_weight, ids[Len(ids)])

\* lines 309-314: the new head row of a mapping
HeadRow(head, ids, decay) ==
    IF Len(ids) = 1 THEN Row(head, ids[1])
    ELSE compute_front_loaded_mean([k \in 1..Len(ids) |-> Row(head, ids[k])], decay)

\* lines 309-315: the counter a mapping of n ids increments
HeadCategory(n) == IF n = 1 THEN "copy" ELSE "mean"

\* lines 289-315: one iteration of the pass
TransplantToken ==
    /\ pc = "pass"
    /\ idx < used_target_vocab_size[1]
    /\ decoded' = Some(TargetDecode(idx))
    /\ \E natural \in DonorEncode(TargetDecode(idx)) :
        LET ids == SelectEncoded(override_map, idx, natural) IN
        /\ donor_encode' = IF idx \in DOMAIN override_map THEN donor_encode
                           ELSE (TargetDecode(idx) :> natural) @@ donor_encode
        /\ encoded' = Some(ids)
        /\ mapping' = (idx :> ids) @@ mapping
        /\ mapping_counts' = CountMapping(mapping_counts, Len(ids))
        /\ IF ids = <<>> \/ idx \notin DOMAIN new_embed_tokens
           THEN /\ Raise("IndexError", 306, {})
                /\ UNCHANGED <<new_embed_tokens, new_lm_head, row_writes,
                               lm_head_copy_count, lm_head_mean_count, idx>>
           ELSE /\ new_embed_tokens' = [new_embed_tokens EXCEPT ![idx] = EmbedRow(ids)]
                /\ new_lm_head' = [new_lm_head EXCEPT ![idx] =
                                      HeadRow(donor_lm_head, ids, weighting_decay_factor[1])]
                /\ row_writes' = [row_writes EXCEPT ![idx] = @ + 1]
                /\ lm_head_copy_count' =
                       lm_head_copy_count + (IF HeadCategory(Len(ids)) = "copy" THEN 1 ELSE 0)
                /\ lm_head_mean_count' =
                       lm_head_mean_count + (IF HeadCategory(Len(ids)) = "mean" THEN 1 ELSE 0)
                /\ idx' = idx + 1
                /\ UNCHANGED <<pc, error>>
    /\ UNCHANGED <<weighting_decay_factor, config_vars, override_map, auto_vars,
                   manual_vars, donor_lm_head, lm_head_zeroed_count, saved>>

\* lines 317-362: the statistics are printed, the new matrices are put in
\* the state dict and the model is saved
SaveModel ==
    /\ pc = "pass"
    /\ idx = used_target_vocab_size[1]
    /\ lm_head_zeroed_count' =
           Some(target_vocab_size[1] - (lm_head_copy_count + lm_head_mean_count))
    /\ saved' = TRUE
    /\ pc' = "done"
    /\ UNCHANGED <<error, weighting_decay_factor, config_vars, override_map,
                   auto_vars, manual_vars, donor_encode, encoded, pass_vars>>

Next ==
    \/ ParseConfig
    \/ ReportLoaded
    \/ AutoOverride
    \/ EndAutoOverrides
    \/ ManualOverride
    \/ BeginPass
    \/ TransplantToken
    \/ SaveModel

Spec == Init /\ [][Next]_vars

(* ------------------------------ properties ---------------------------- *)

\* the pass has allocated the matrices
Allocated == new_embed_tokens # None

\* the target ids whose iteration of the pass has run to its end
Transplanted == {i \in DOMAIN mapping : i < idx}

Last(ids) == ids[Len(ids)]

\* C1: a target id of the registry is mapped, in the pass, to its registered
\* donor ids, whatever the donor tokenizer returns for its decoded text, and
\* its embedding row comes from that entry; an id outside the registry is
\* mapped to the donor encoding of its decoded text.
OverridePrecedence ==
    \A i \in DOMAIN mapping :
        /\ i \in DOMAIN override_map =>
              /\ mapping[i] = override_map[i]
              /\ i \in Transplanted =>
                    /\ new_embed_tokens[i] = embed_tokens_weight[Last(override_map[i]) + 1]
                    /\ Len(override_map[i]) = 1 =>
                          new_lm_head[i] = donor_lm_head[override_map[i][1] + 1]
        /\ i \notin DOMAIN override_map =>
              /\ TargetDecode(i) \in DOMAIN donor_encode
              /\ mapping[i] = donor_encode[TargetDecode(i)]

\* a finished run in which the donor tokenizer's encoding of the decoded text
\* of a registered id is known and is not the registered entry
OverridePrecedenceWitness ==
    /\ pc = "done"
    /\ \E i \in DOMAIN override_map :
        /\ i \in Transplanted
        /\ TargetDecode(i) \in DOMAIN donor_encode
        /\ donor_encode[TargetDecode(i)] # override_map[i]
        /\ mapping[i] = override_map[i]

\* C2: every mapping the pass produces is a non-empty sequence of donor ids,
\* also when the donor tokenizer encodes a decoded target text to zero ids.
MappingNonEmpty == \A i \in DOMAIN mapping : mapping[i] # <<>>

\* C3: row i of the new input embeddings is the donor input-embedding row of
\* the last donor id of mapping(i), for every transplanted id i.
EmbeddingRowIsLast ==
    \A i \in Transplanted :
        new_embed_tokens[i] = embed_tokens_weight[Last(mapping[i]) + 1]

\* a finished run with a mapping of several ids whose last id is not its
\* first, under decay 1/2
EmbeddingRowIsLastWitness ==
    /\ pc = "done"
    /\ weighting_decay_factor = Some(Rat(1, 2))
    /\ \E i \in Transplanted :
        /\ Len(mapping[i]) = MaxLen
        /\ mapping[i][1] # Last(mapping[i])
        /\ new_embed_tokens[i] # embed_tokens_weight[mapping[i][1] + 1]

\* integer powers, with 0^0 = 1
RECURSIVE IPow(_, _)
IPow(b, e) == IF e = 0 THEN 1 ELSE b * IPow(b, e - 1)

\* decay^(k-1) for decay = p/q, over the common denominator q^(n-1)
Weight(p, q, n, k) == IPow(p, k - 1) * IPow(q, n - k)

\* the sum of the weights of the first k ids of a mapping of n ids
RECURSIVE WeightSum(_, _, _, _)
WeightSum(p, q, n, k) ==
    IF k = 0 THEN 0 ELSE Weight(p, q, n, k) + WeightSum(p, q, n, k - 1)

\* the weighted sum of component j of the donor head rows of the first k
\* ids of the mapping m
RECURSIVE WeightedSum(_, _, _, _, _)
WeightedSum(m, p, q, k, j) ==
    IF k = 0 THEN 0
    ELSE Weight(p, q, Len(m), k) * donor_lm_head[m[k] + 1][j][1]
         + WeightedSum(m, p, q, k - 1, j)

\* the rational x equals num/den
Equals(x, num, den) == x[1] * den = num * x[2]

\* the head row is the decay-weighted mean of the donor head rows of m
IsWeightedMean(row, m, p, q) ==
    \A j \in DOMAIN row :
        Equals(row[j], WeightedSum(m, p, q, Len(m), j), WeightSum(p, q, Len(m), Len(m)))

\* C4: the new head row of a transplanted id with mapping m is
\* (sum_k decay^k * donor_head[m[k]]) / (sum_k decay^k) with 0^0 = 1; that is
\* donor_head[m[0]] for one id or decay 0, and the mean for decay 1.
HeadRowIsFrontLoadedMean ==
    \A i \in Transplanted :
        LET m == mapping[i]
            decay == weighting_decay_factor[1]
        IN /\ IsWeightedMean(new_lm_head[i], m, decay[1], decay[2])
           /\ (Len(m) = 1 \/ decay = Zero) => new_lm_head[i] = donor_lm_head[m[1] + 1]
           /\ decay = One =>
                 \A j \in DOMAIN new_lm_head[i] :
                     Equals(new_lm_head[i][j], WeightedSum(m, 1, 1, Len(m), j), Len(m))

\* a finished run under decay 1/2 with the mapping [0, 1], whose head row is
\* (1*H0 + 0.5*H1)/1.5, and with a mapping of three ids
HeadRowIsFrontLoadedMeanWitness ==
    /\ pc = "done"
    /\ weighting_decay_factor = Some(Rat(1, 2))
    /\ \E i \in Transplanted :
        /\ mapping[i] = <<0, 1>>
        /\ \A j \in DOMAIN new_lm_head[i] :
              new_lm_head[i][j] =
                  Rat(2 * donor_lm_head[1][j][1] + donor_lm_head[2][j][1], 3)
    /\ \E i \in Transplanted :
        /\ Len(mapping[i]) = 3
        /\ mapping[i][1] # mapping[i][2]

\* C5: with the used size at most the declared size, rows of unused target
\* ids stay zero in both matrices, the pass writes each row of a used id once
\* and no other row, and the matrices keep their declared number of rows.
UnusedSlotsStayZero ==
    (Allocated /\ used_target_vocab_size[1] <= target_vocab_size[1]) =>
        /\ DOMAIN new_embed_tokens = 0..(target_vocab_size[1] - 1)
        /\ DOMAIN new_lm_head = 0..(target_vocab_size[1] - 1)
        /\ \A r \in DOMAIN new_embed_tokens :
            /\ r >= used_target_vocab_size[1] =>
                  /\ new_embed_tokens[r] = ZeroRow(donor_hidden_size[1])
                  /\ new_lm_head[r] = ZeroRow(donor_hidden_size[1])
                  /\ row_writes[r] = 0
            /\ row_writes[r] = IF r \in Transplanted THEN 1 ELSE 0
        /\ pc = "done" =>
              Transplanted = 0..(used_target_vocab_size[1] - 1)

\* a finished run with an unused slot
UnusedSlotsStayZeroWitness ==
    /\ pc = "done"
    /\ used_target_vocab_size[1] < target_vocab_size[1]
    /\ \A r \in 0..(used_target_vocab_size[1] - 1) :
          /\ row_writes[r] = 1
          /\ new_lm_head[r] # ZeroRow(donor_hidden_size[1])
    /\ new_lm_head[used_target_vocab_size[1]] = ZeroRow(donor_hidden_size[1])

\* the run ended in the loop over args.override
AbortedInOverride == pc = "aborted" /\ target_token # None

\* C6: a manual override whose target string encodes to other than one
\* target id, or whose donor string encodes to zero donor ids, ends the run
\* at that override with an error naming the offending string, before any
\* row is written and before the save step.
FatalOverrideErrors ==
    /\ (pc = "manual" /\ target_token # None) =>
          /\ Len(TargetEncode(target_token[1])) = 1
          /\ encoded[1] # <<>>
    /\ AbortedInOverride =>
          /\ ~ Allocated
          /\ ~ saved
          /\ error[1].type = "AssertionError"
          /\ \/ /\ Len(TargetEncode(target_token[1])) # 1
                /\ target_token[1] \in error[1].shows
             \/ /\ Len(TargetEncode(target_token[1])) = 1
                /\ encoded = Some(<<>>)
                /\ donor_tokens[1] \in error[1].shows

\* the field of a configuration, flat or nested under text_config
ConfigField(config, key) ==
    IF Has(config, "text_config") /\ Has(config.text_config, key)
    THEN Some(config.text_config[key])
    ELSE IF Has(config, key) THEN Some(config[key]) ELSE None

\* C7: past configuration loading, the donor vocabulary size is the
\* vocab_size field and the donor hidden size the hidden_size field of the
\* donor configuration, flat or nested, and the hidden size is defined.
ConfigFieldsNotCrossed ==
    pc \notin {"config", "aborted"} =>
        /\ donor_vocab_size = ConfigField(donor_config[1], "vocab_size")
        /\ donor_hidden_size = ConfigField(donor_config[1], "hidden_size")
        /\ donor_hidden_size # None

\* the id of a role: the tokenizer's attribute when it has one, else the
\* configuration's value when it has one
Present(attr, config) ==
    IF attr # None THEN attr ELSE IF config # None THEN config[1] ELSE None

\* map extended by t -> ids, every other entry as it was
Extends(after, before, t, ids) ==
    /\ DOMAIN after = DOMAIN before \cup {t}
    /\ after[t] = ids
    /\ \A k \in DOMAIN before \ {t} : after[k] = before[k]

\* C8: an iteration of the automatic alignment registers
\* target id -> [donor id] exactly when both ids are present and the target
\* id is not yet registered; otherwise it leaves the registry as it is; in
\* neither case does the run end.
AutomaticAlignment ==
    [][(pc = "auto" /\ token_attr <= Len(special_tokens)) =>
          LET read == special_read'[1]
              t == Present(read.target_attr, read.target_config)
              d == Present(read.donor_attr, read.donor_config)
          IN /\ pc' = "auto"
             /\ error' = None
             /\ token_attr' = token_attr + 1
             /\ IF t # None /\ d # None /\ t[1] \notin DOMAIN override_map
                THEN Extends(override_map', override_map, t[1], <<d[1]>>)
                ELSE override_map' = override_map]_vars

\* the three roles are done, and the last one was skipped although both its
\* ids are present: its target id kept the entry of an earlier role
AutomaticAlignmentWitness ==
    /\ pc = "auto"
    /\ token_attr > Len(special_tokens)
    /\ target_token_id # None
    /\ donor_token_id # None
    /\ override_map[target_token_id[1]] # <<donor_token_id[1]>>
    /\ special_read[1].target_attr = None

\* C9: a manual override that passes its two checks sets the entry of its
\* target id to the donor encoding of its donor string, whatever was
\* registered for that id, and leaves every other entry as it was; manual
\* overrides run after the automatic alignment.
ManualOverridesOverwrite ==
    [][/\ (pc = "manual" /\ pc' = "manual") =>
             /\ Len(TargetEncode(target_token'[1])) = 1
             /\ donor_encode'[donor_tokens'[1]] # <<>>
             /\ Extends(override_map', override_map,
                        target_vocab[target_token'[1][1]],
                        donor_encode'[donor_tokens'[1]])
       /\ pc = "auto" => override_index = 0 /\ override_index' = 0]_vars

\* two manual overrides went through and the registry has one entry: the
\* second replaced the entry of the first, the two donor strings encoding
\* differently
ManualOverridesOverwriteWitness ==
    /\ pc = "manual"
    /\ override_index = 2
    /\ Cardinality(DOMAIN override_map) = 1
    /\ DOMAIN donor_encode = {<<"a">>, <<LF>>}
    /\ donor_encode[<<"a">>] # donor_encode[<<LF>>]
    /\ \A t \in DOMAIN override_map : override_map[t] = donor_encode[donor_tokens[1]]

\* the number of transplanted ids whose mapping has n ids
Mapped(n) == Cardinality({i \in Transplanted : Len(mapping[i]) = n})

ZeroHeadRows ==
    Cardinality({r \in DOMAIN new_lm_head : new_lm_head[r] = ZeroRow(donor_hidden_size[1])})

\* C10: every transplanted id is counted once as a copy (one id) or as a
\* mean (several ids) and once in the histogram bucket of its mapping's
\* length; after the pass copies + means is the used size and the zero count
\* is declared size - used size, the number of unused, all-zero rows.
StatisticsPartition ==
    (Allocated /\ pc # "aborted") =>
        /\ lm_head_copy_count = Mapped(1)
        /\ lm_head_mean_count = Cardinality(Transplanted) - Mapped(1)
        /\ lm_head_copy_count + lm_head_mean_count = idx
        /\ DOMAIN mapping_counts = {Len(mapping[i]) : i \in Transplanted}
        /\ \A n \in DOMAIN mapping_counts : mapping_counts[n] = Mapped(n)
        /\ pc = "done" =>
              /\ lm_head_copy_count + lm_head_mean_count = used_target_vocab_size[1]
              /\ lm_head_zeroed_count[1] = target_vocab_size[1] - used_target_vocab_size[1]
              /\ lm_head_zeroed_count[1] >= 0
              /\ lm_head_zeroed_count[1] = ZeroHeadRows

\* a finished run with a copy, a mean and an unused slot
StatisticsPartitionWitness ==
    /\ pc = "done"
    /\ lm_head_copy_count = 1
    /\ lm_head_mean_count = 1
    /\ lm_head_zeroed_count = Some(1)
    /\ DOMAIN mapping_counts = {1, MaxLen}

====
